---- MODULE Spec2Model ----
(***************************************************************************)
(* Model of the grounded-search service: the /search request handler of    *)
(* src/main.py (validation, availability check, prompt composition,        *)
(* thread-and-run submission, the bounded poll loop, message retrieval)    *)
(* and the BingGroundingTool of src/api/bing_grounding_tool.py             *)
(* (search_web_async with its fallback set, get_grounded_information,      *)
(* execute_bing_search_function).                                          *)
(*                                                                         *)
(* Handlers are asyncio coroutines on one event loop: a handler runs       *)
(* without interruption until it suspends at an await that really waits    *)
(* (the HTTP call inside search_web_async); "running" names the handler    *)
(* that holds the event loop.  The remote collaborators (web search,       *)
(* create_thread_and_run, runs.get, messages.list) are the environment:    *)
(* every call either returns one of the shapes the code distinguishes or   *)
(* raises.  "calls" counts the collaborator calls made for each request.   *)
(*                                                                         *)
(* A text is a sequence of tokens: single characters, or a whole fixed     *)
(* phrase of the source that contains no bracket and no white space at     *)
(* its ends.  A Python value that need not be a str is a record            *)
(* [type, value] where value is the text str() gives for it.               *)
(***************************************************************************)
EXTENDS Integers, Sequences, FiniteSets, TLC

\* ------------------------------------------------------------------ bounds

\* longest request message / query, in characters
MaxLen == 1
\* most web pages a 200 answer of the search provider carries
MaxResults == 2
\* number of handler slots that can be in flight at once
NumReq == 2
\* longest text handed to a formatting function called on its own
MaxText == 5
\* most search results handed to format_search_results called on its own
MaxHits == 6
\* most annotations handed to format_bing_grounding_response called on its own
MaxAnns == 2

\* ------------------------------------------------------- program constants

max_wait_time == 30
wait_interval == 1

None == "None"

Reqs == 1..NumReq

\* ------------------------------------------------------------------- texts

Chars == {" ", "a"}

Texts(n) == UNION {[1..k -> Chars] : k \in 0..n}

Whitespace == {" "}

RECURSIVE LStrip(_)
LStrip(s) == IF s # <<>> /\ Head(s) \in Whitespace THEN LStrip(Tail(s)) ELSE s

RECURSIVE RStrip(_)
RStrip(s) ==
    IF s # <<>> /\ s[Len(s)] \in Whitespace
    THEN RStrip(SubSeq(s, 1, Len(s) - 1))
    ELSE s

\* str.strip()
Strip(s) == RStrip(LStrip(s))

\* str.replace(' ', '+')
ReplaceSpaces(s) == [i \in 1..Len(s) |-> IF s[i] = " " THEN "+" ELSE s[i]]

\* a Python str value, and a JSON number, as Python values
PyStr(s) == [type |-> "str", value |-> s]
PyInt(s) == [type |-> "int", value |-> s]

\* bool(v) of a Python value: the empty str and the number 0 are falsy
Truthy(v) == IF v.type = "str" THEN v.value # <<>> ELSE v.value # <<"0">>

\* ------------------------------------------- outcomes of a Python call

Return(v) == [raised |-> FALSE, value |-> v]
Raise == [raised |-> TRUE, value |-> <<>>]

Min(a, b) == IF a <= b THEN a ELSE b
Max(a, b) == IF a >= b THEN a ELSE b

\* seq[:n] of Python
SlicePrefix(seq, n) ==
    IF n >= 0
    THEN SubSeq(seq, 1, Min(n, Len(seq)))
    ELSE SubSeq(seq, 1, Max(0, Len(seq) + n))

\* ------------------------------------------------------ BingGroundingTool

\* faulty variant: the tool is enabled by the switch alone, the key is not
\* looked at
ToolEnabledFlagOnly(key_set, enable_flag) == enable_flag

\* BingGroundingTool.__init__: self.enabled
ToolEnabled(key_set, enable_flag) == key_set /\ enable_flag

\* what the environment answers to the one GET of search_web_async
Digits == <<"1", "2", "3", "4", "5", "6", "7", "8">>

Page(i) ==
    [name |-> <<"page", Digits[i]>>,
     url |-> <<"https://example.org/", Digits[i]>>,
     snippet |-> <<"snippet", Digits[i]>>,
     displayUrl |-> <<"example.org/", Digits[i]>>,
     dateLastCrawled |-> <<"2025-09-01">>,
     language |-> <<"en">>]

\* JSON bodies of a 200 answer: n web pages, or no 'webPages' key, or a
\* 'webPages' object without 'value'
DataPages(n) == [webPages |-> TRUE, value |-> TRUE, items |-> [i \in 1..n |-> Page(i)]]
DataNoWebPages == [webPages |-> FALSE, value |-> FALSE, items |-> <<>>]
DataNoValue == [webPages |-> TRUE, value |-> FALSE, items |-> <<>>]

Datas == {DataPages(n) : n \in 0..MaxResults} \cup {DataNoWebPages, DataNoValue}

HttpException == [kind |-> "exception", status |-> 0, json |-> FALSE, data |-> DataNoWebPages]
HttpStatus(code) == [kind |-> "response", status |-> code, json |-> FALSE, data |-> DataNoWebPages]
HttpOk(d) == [kind |-> "response", status |-> 200, json |-> TRUE, data |-> d]
HttpOkBadJson == [kind |-> "response", status |-> 200, json |-> FALSE, data |-> DataNoWebPages]

\* no GET has been answered
NoHttp == [kind |-> "none", status |-> 0, json |-> FALSE, data |-> DataNoWebPages]

HttpOutcomes ==
    {HttpException, HttpStatus(401), HttpStatus(500), HttpOkBadJson}
        \cup {HttpOk(d) : d \in Datas}

\* BingGroundingTool._create_fallback_results: query.replace raises on a
\* query that is not a str
CreateFallbackResults(query) ==
    IF query.type # "str"
    THEN Raise
    ELSE Return(
        << [title |-> <<"Search Configuration Notice: ", "\"">> \o query.value \o <<"\"">>,
            url |-> <<"https://www.bing.com/search?q=">> \o ReplaceSpaces(query.value),
            snippet |-> <<"I attempted to search for current information about ", "\"">>
                            \o query.value
                            \o <<"\"", " but the Bing Search API is not configured or enabled.">>,
            display_url |-> <<"Configuration Required">>,
            date_last_crawled |-> <<"2025-09-09">>,
            language |-> <<"en">>],
           [title |-> <<"Alternative Search Options">>,
            url |-> <<"https://azure.microsoft.com/services/cognitive-services/bing-web-search-api/">>,
            snippet |-> <<"For immediate information needs, please search manually">>,
            display_url |-> <<"Manual Search Recommended">>,
            date_last_crawled |-> <<"2025-09-09">>,
            language |-> <<"en">>] >>)

\* BingGroundingTool._parse_search_results
ParseSearchResults(data) ==
    IF data.webPages /\ data.value
    THEN [i \in 1..Len(data.items) |->
            [title |-> data.items[i].name,
             url |-> data.items[i].url,
             snippet |-> data.items[i].snippet,
             display_url |-> data.items[i].displayUrl,
             date_last_crawled |-> data.items[i].dateLastCrawled,
             language |-> data.items[i].language]]
    ELSE <<>>

\* search_web_async, the body of its try block once the GET has ended
SearchTryBody(query, outcome) ==
    IF outcome.kind = "exception" THEN Raise
    ELSE IF outcome.status = 200
         THEN (IF outcome.json THEN Return(ParseSearchResults(outcome.data)) ELSE Raise)
         ELSE IF outcome.status = 401
              THEN CreateFallbackResults(query)
              ELSE CreateFallbackResults(query)

\* faulty variant: no except block, what the try block raises is raised on
SearchWebResponseUncaught(query, outcome) == SearchTryBody(query, outcome)

\* search_web_async on an enabled tool, from the answer of the GET to its
\* return: whatever the try block raises is turned into the fallback set
SearchWebResponse(query, outcome) ==
    IF SearchTryBody(query, outcome).raised
    THEN CreateFallbackResults(query)
    ELSE SearchTryBody(query, outcome)

\* search_web_async on a disabled tool
SearchWebDisabled(query) == CreateFallbackResults(query)

\* faulty variant: enumerate(results[:max_results]) without its start value,
\* the blocks are numbered from 0
FormatSearchResultsFromZero(results, max_results) ==
    IF results = <<>>
    THEN [kind |-> "sentinel", blocks |-> <<>>]
    ELSE [kind |-> "blocks",
          blocks |-> [i \in 1..Len(SlicePrefix(results, max_results)) |->
                        [n |-> i - 1,
                         title |-> results[i].title,
                         url |-> results[i].url,
                         summary |-> results[i].snippet,
                         display_url |-> results[i].display_url]]]

\* BingGroundingTool.format_search_results: the sentinel, or one numbered
\* block per result of results[:max_results] (the empty string if the slice
\* is empty)
FormatSearchResults(results, max_results) ==
    IF results = <<>>
    THEN [kind |-> "sentinel", blocks |-> <<>>]
    ELSE [kind |-> "blocks",
          blocks |-> [i \in 1..Len(SlicePrefix(results, max_results)) |->
                        [n |-> i,
                         title |-> results[i].title,
                         url |-> results[i].url,
                         summary |-> results[i].snippet,
                         display_url |-> results[i].display_url]]]

\* "Error retrieving search results." of the except block
ErrorFormatted == [kind |-> "error", blocks |-> <<>>]

\* bool() of a formatted string: only the empty string is falsy
FormattedTruthy(f) == f.kind # "blocks" \/ f.blocks # <<>>

\* get_grounded_information: enhanced_query
EnhancedQuery(query, context) ==
    IF context # <<>>
    THEN PyStr(Strip(query.value \o <<" ">> \o context))
    ELSE query

\* faulty variant: sources_count counts the results of a successful search
\* only, the entries of the fallback set are not counted
GroundedInfoRealOnly(query, enhanced_query, search, enabled) ==
    IF search.raised
    THEN [query |-> query,
          error |-> TRUE,
          search_results |-> <<>>,
          formatted_results |-> ErrorFormatted,
          sources_count |-> 0,
          enabled |-> enabled]
    ELSE [query |-> query,
          enhanced_query |-> enhanced_query,
          search_results |-> search.value,
          formatted_results |-> FormatSearchResults(search.value, 5),
          sources_count |-> IF search.value = CreateFallbackResults(enhanced_query).value
                            THEN 0 ELSE Len(search.value),
          enabled |-> enabled]

\* get_grounded_information from the return of search_web_async on: the
\* dictionary of the try block, or the one of the except block
GroundedInfo(query, enhanced_query, search, enabled) ==
    IF search.raised
    THEN [query |-> query,
          error |-> TRUE,
          search_results |-> <<>>,
          formatted_results |-> ErrorFormatted,
          sources_count |-> 0,
          enabled |-> enabled]
    ELSE [query |-> query,
          enhanced_query |-> enhanced_query,
          search_results |-> search.value,
          formatted_results |-> FormatSearchResults(search.value, 5),
          sources_count |-> Len(search.value),
          enabled |-> enabled]

\* ------------------------------------------------------- ResultFormatter

\* tokens standing for the characters U+3010, and U+2020 "source" U+3011
OpenMark == "U+3010"
CloseMark == "U+2020source U+3011"

\* index of the first "]" of s at or after position i, 0 if there is none
RECURSIVE FirstClose(_, _)
FirstClose(s, i) ==
    IF i > Len(s) THEN 0
    ELSE IF s[i] = "]" THEN i
    ELSE FirstClose(s, i + 1)

\* faulty variant of the pattern: * for +, so that "[]" is rewritten too
RECURSIVE FormatUnicodeCitationsStar(_)
FormatUnicodeCitationsStar(text) ==
    IF text = <<>> THEN <<>>
    ELSE IF Head(text) = "[" /\ FirstClose(text, 2) >= 2
         THEN <<OpenMark>>
                \o SubSeq(text, 2, FirstClose(text, 2) - 1)
                \o <<CloseMark>>
                \o FormatUnicodeCitationsStar(SubSeq(text, FirstClose(text, 2) + 1, Len(text)))
         ELSE <<Head(text)>> \o FormatUnicodeCitationsStar(Tail(text))

\* format_unicode_citations: re.sub of \[([^\]]+)\], leftmost matches that do
\* not overlap.  At a "[" the pattern matches iff a "]" follows with at least
\* one character in between, and the match ends at the first such "]".
RECURSIVE FormatUnicodeCitations(_)
FormatUnicodeCitations(text) ==
    IF text = <<>> THEN <<>>
    ELSE IF Head(text) = "[" /\ FirstClose(text, 2) >= 3
         THEN <<OpenMark>>
                \o SubSeq(text, 2, FirstClose(text, 2) - 1)
                \o <<CloseMark>>
                \o FormatUnicodeCitations(SubSeq(text, FirstClose(text, 2) + 1, Len(text)))
         ELSE <<Head(text)>> \o FormatUnicodeCitations(Tail(text))

\* format_bing_grounding_response, one annotation: kept only when it has
\* both a text and a file_citation attribute
AnnotationKept(a) == a.has_text /\ a.has_file_citation

FormatAnnotation(a) ==
    [type |-> "citation",
     text |-> a.text,
     start_index |-> IF a.has_indices THEN a.start_index ELSE 0,
     end_index |-> IF a.has_indices THEN a.end_index ELSE Len(a.text),
     citation |->
        [citation_id |-> IF a.has_file_id THEN a.file_id ELSE <<"1:0">>,
         quote |-> IF a.has_quote THEN a.quote ELSE <<>>,
         source_name |-> IF a.has_file_id THEN a.file_id ELSE <<"Web Search">>]]

RECURSIVE FormatAnnotations(_)
FormatAnnotations(annotations) ==
    IF annotations = <<>> THEN <<>>
    ELSE (IF AnnotationKept(Head(annotations))
          THEN <<FormatAnnotation(Head(annotations))>>
          ELSE <<>>)
         \o FormatAnnotations(Tail(annotations))

\* format_bing_grounding_response
FormatBingGroundingResponse(content, annotations) ==
    [response |->
        [type |-> "text",
         text |-> [value |-> FormatUnicodeCitations(content),
                   annotations |-> FormatAnnotations(annotations)]]]

\* ------------------------------------------------- the remote collaborators

\* run statuses runs.get can report
TerminalStatuses == {"completed", "failed", "expired", "cancelled"}
RunStatuses == {"queued", "in_progress"} \cup TerminalStatuses

\* outcomes of one runs.get call: a status, or an exception
FetchOutcomes == RunStatuses \cup {"raise"}

\* annotations of a remote text item
FileAnnotation ==
    [has_text |-> TRUE, text |-> <<"[", "1", "]">>,
     has_indices |-> TRUE, start_index |-> 1, end_index |-> 4,
     has_file_citation |-> TRUE,
     has_file_id |-> TRUE, file_id |-> <<"file-1">>,
     has_quote |-> TRUE, quote |-> <<"q">>]
BareFileAnnotation ==
    [has_text |-> TRUE, text |-> <<"[", "2", "]">>,
     has_indices |-> FALSE, start_index |-> 0, end_index |-> 0,
     has_file_citation |-> TRUE,
     has_file_id |-> FALSE, file_id |-> <<>>,
     has_quote |-> FALSE, quote |-> <<>>]
UrlAnnotation ==
    [has_text |-> TRUE, text |-> <<"[", "3", "]">>,
     has_indices |-> TRUE, start_index |-> 0, end_index |-> 3,
     has_file_citation |-> FALSE,
     has_file_id |-> FALSE, file_id |-> <<>>,
     has_quote |-> FALSE, quote |-> <<>>]

AnnotationLists == {<<>>, <<FileAnnotation>>, <<UrlAnnotation, BareFileAnnotation>>}

\* texts of an assistant reply
PlainReply == <<"a">>
CitedReply == <<"a", "[", "1", "]">>

\* content items of a message: a text item, a text item whose text is None,
\* an item of another type (no text attribute)
TextItem(v, anns) == [has_text |-> TRUE, text_set |-> TRUE, value |-> v, annotations |-> anns]
NoneTextItem == [has_text |-> TRUE, text_set |-> FALSE, value |-> <<>>, annotations |-> <<>>]
ImageItem == [has_text |-> FALSE, text_set |-> FALSE, value |-> <<>>, annotations |-> <<>>]

ThreadMessage(role, content) == [role |-> role, content |-> content]

\* what messages.list can give, latest message first
MessageLists ==
    {<<>>,
     <<ThreadMessage("user", <<ImageItem>>)>>,
     <<ThreadMessage("assistant", <<>>)>>,
     <<ThreadMessage("assistant", <<ImageItem>>)>>,
     <<ThreadMessage("assistant", <<NoneTextItem>>)>>}
        \cup {<<ThreadMessage("assistant", <<TextItem(CitedReply, a)>>),
                 ThreadMessage("user", <<TextItem(PlainReply, <<>>)>>)>> : a \in AnnotationLists}
        \cup {<<ThreadMessage("assistant", <<TextItem(PlainReply, <<>>)>>)>>,
              <<ThreadMessage("user", <<TextItem(PlainReply, <<>>)>>)>>}

ListOutcomes == {Raise} \cup {Return(m) : m \in MessageLists}

\* ------------------------------------------------------ the /search handler

\* JSONResponse(status_code=..., content=...)
JSONResponse(status_code, content) == [status_code |-> status_code, content |-> content]

\* faulty variant of the validation: the strip() test left out
IsBlankNoStrip(message) == message = <<>>

\* not request.message or not request.message.strip()
IsBlank(message) == message = <<>> \/ Strip(message) = <<>>

\* faulty variant of the availability check: the agent is not looked at
UnavailableClientOnly(agent_value, client_value) == client_value = None

\* not agent or not ai_project_client
Unavailable(agent_value, client_value) == agent_value = None \/ client_value = None

\* faulty variant of the compose step: the notices of the fallback set are
\* not taken for results
PromptForRealResults(bing_enabled, grounded_info) ==
    IF bing_enabled
    THEN (IF /\ FormattedTruthy(grounded_info.formatted_results)
             /\ grounded_info.sources_count > 0
             /\ grounded_info.search_results[1].display_url # <<"Configuration Required">>
          THEN "analyze_results"
          ELSE "search_unavailable")
    ELSE "answer_from_knowledge"

\* the three prompts of the compose step
PromptFor(bing_enabled, grounded_info) ==
    IF bing_enabled
    THEN (IF FormattedTruthy(grounded_info.formatted_results) /\ grounded_info.sources_count > 0
          THEN "analyze_results"
          ELSE "search_unavailable")
    ELSE "answer_from_knowledge"

\* faulty variant of the loop test: <= for <, one pass too many
LoopCondInclusive(elapsed_time) == elapsed_time <= max_wait_time

\* while elapsed_time < max_wait_time
LoopCond(elapsed_time) == elapsed_time < max_wait_time

\* faulty variant of the terminal test: "cancelled" left out of the list
IsTerminalNoCancelled(status) == status \in {"completed", "failed", "expired"}

\* current_run.status in ["completed", "failed", "expired", "cancelled"]
IsTerminal(status) == status \in TerminalStatuses

\* elapsed_time += wait_interval
NextElapsed(elapsed_time) == elapsed_time + wait_interval

\* faulty variant of the retrieve step: the oldest message (messages[-1]) is
\* read for the latest (messages[0])
RetrieveResponseOldest(listing) ==
    IF listing.raised
    THEN JSONResponse(500, FormatBingGroundingResponse(<<"Error retrieving search results">>, <<>>))
    ELSE IF /\ listing.value # <<>>
            /\ listing.value[Len(listing.value)].role = "assistant"
            /\ listing.value[Len(listing.value)].content # <<>>
            /\ listing.value[Len(listing.value)].content[1].has_text
         THEN (IF listing.value[Len(listing.value)].content[1].text_set
               THEN JSONResponse(200,
                        FormatBingGroundingResponse(listing.value[Len(listing.value)].content[1].value,
                                                    listing.value[Len(listing.value)].content[1].annotations))
               ELSE JSONResponse(500,
                        FormatBingGroundingResponse(<<"Error retrieving search results">>, <<>>)))
         ELSE JSONResponse(200, FormatBingGroundingResponse(<<"No search results available">>, <<>>))

\* the retrieve step, from the return of messages.list on
RetrieveResponse(listing) ==
    IF listing.raised
    THEN JSONResponse(500, FormatBingGroundingResponse(<<"Error retrieving search results">>, <<>>))
    ELSE IF /\ listing.value # <<>>
            /\ listing.value[1].role = "assistant"
            /\ listing.value[1].content # <<>>
            /\ listing.value[1].content[1].has_text
         THEN (IF listing.value[1].content[1].text_set
               THEN JSONResponse(200,
                        FormatBingGroundingResponse(listing.value[1].content[1].value,
                                                    listing.value[1].content[1].annotations))
               ELSE JSONResponse(500,
                        FormatBingGroundingResponse(<<"Error retrieving search results">>, <<>>)))
         ELSE JSONResponse(200, FormatBingGroundingResponse(<<"No search results available">>, <<>>))

\* the outer except block
ProcessingError ==
    JSONResponse(500,
        FormatBingGroundingResponse(<<"An error occurred while processing your search request.">>, <<>>))

\* ------------------------------------------------------------------- state

VARIABLES
    ai_project_client,  \* the process-wide client handle, None until startup sets it
    agent,              \* the process-wide agent, None until startup finds it
    environ,            \* os.environ: which of the two search settings are set
    started,            \* the lifespan startup has run
    running,            \* the handler holding the event loop, 0 if none
    req,                \* per handler slot: its position and its locals
    calls,              \* per handler slot: the collaborator calls made so far
    fn                  \* the last call of a formatting function made on its own

vars == <<ai_project_client, agent, environ, started, running, req, calls, fn>>

IdleReq ==
    [kind |-> "none",
     pc |-> "idle",
     message |-> <<>>,
     query |-> PyStr(<<>>),
     context |-> <<>>,
     enhanced_query |-> PyStr(<<>>),
     tool_enabled |-> FALSE,
     http_response |-> NoHttp,
     search_results |-> <<>>,
     grounded_info |-> <<>>,
     prompt |-> None,
     run_result |-> None,
     elapsed_time |-> 0,
     current_run |-> None,
     response |-> <<>>,
     result |-> None,
     thread_id |-> <<>>,
     thread |-> <<>>,
     posted |-> <<>>,
     stream |-> <<>>,
     disconnected |-> <<>>]

NoCalls ==
    [get_grounded_information |-> 0,
     http_get |-> 0,
     create_thread_and_run |-> 0,
     runs_get |-> 0,
     sleep |-> 0,
     messages_list |-> 0,
     last_status |-> None,
     last_list |-> Raise,
     threads_get |-> 0,
     threads_create |-> 0,
     messages_create |-> 0,
     thread_resolved |-> <<>>,
     thread_created |-> <<>>,
     message_posted |-> <<>>]

\* no formatting function has been called on its own
NoFn == [name |-> "none"]

Init ==
    /\ ai_project_client = None
    /\ agent = None
    /\ environ \in [ENABLE_BING_SEARCH : BOOLEAN, BING_SEARCH_API_KEY : BOOLEAN]
    /\ started = FALSE
    /\ running = 0
    /\ req = [r \in Reqs |-> IdleReq]
    /\ calls = [r \in Reqs |-> NoCalls]
    /\ fn = NoFn

\* lifespan, up to its yield: the only writer of the two handles
Lifespan(endpoint_set, client_ok, agent_found) ==
    /\ ~started
    /\ started' = TRUE
    /\ ai_project_client' = IF endpoint_set /\ client_ok THEN "client" ELSE None
    /\ agent' = IF endpoint_set /\ client_ok /\ agent_found THEN "agent" ELSE None
    /\ UNCHANGED <<fn, environ, running, req, calls>>

\* a handler step of slot r: r holds the event loop (or takes it, when idle)
Holds(r) == running = r

Update(r, fields) == [req EXCEPT ![r] = fields @@ @]
Count(r, fields) == [calls EXCEPT ![r] = fields @@ @]

\* faulty variant: the availability check comes first, the validation after
SearchValidateSecond(r, message) ==
    /\ started
    /\ running = 0
    /\ req[r].pc = "idle"
    /\ running' = r
    /\ IF Unavailable(agent, ai_project_client)
       THEN req' = Update(r,
                [kind |-> "search", message |-> message, pc |-> "done",
                 response |-> <<JSONResponse(503,
                     FormatBingGroundingResponse(<<"Search service not available">>, <<>>))>>])
       ELSE IF IsBlank(message)
            THEN req' = Update(r,
                    [kind |-> "search", message |-> message, pc |-> "done",
                     response |-> <<JSONResponse(400,
                         [error |-> <<"Search query is required and cannot be empty">>])>>])
            ELSE req' = Update(r, [kind |-> "search", message |-> message, pc |-> "available"])
    /\ UNCHANGED <<fn, ai_project_client, agent, environ, started, calls>>

\* search_endpoint, from the arrival of the request to the end of validation
SearchValidate(r, message) ==
    /\ started
    /\ running = 0
    /\ req[r].pc = "idle"
    /\ running' = r
    /\ IF IsBlank(message)
       THEN req' = Update(r,
                [kind |-> "search", message |-> message, pc |-> "done",
                 response |-> <<JSONResponse(400,
                     [error |-> <<"Search query is required and cannot be empty">>])>>])
       ELSE req' = Update(r, [kind |-> "search", message |-> message, pc |-> "available"])
    /\ UNCHANGED <<fn, ai_project_client, agent, environ, started, calls>>

\* faulty variant of the availability check: a handler that finds the agent
\* unset looks it up and writes the global
SearchAvailableLazy(r) ==
    /\ Holds(r)
    /\ req[r].pc = "available"
    /\ IF ai_project_client = None
       THEN /\ req' = Update(r,
                    [pc |-> "done",
                     response |-> <<JSONResponse(503,
                         FormatBingGroundingResponse(<<"Search service not available">>, <<>>))>>])
            /\ UNCHANGED agent
       ELSE /\ req' = Update(r, [pc |-> "compose"])
            /\ agent' = "agent"
    /\ UNCHANGED <<fn, ai_project_client, environ, started, running, calls>>

\* search_endpoint, the availability check
SearchAvailable(r) ==
    /\ Holds(r)
    /\ req[r].pc = "available"
    /\ IF Unavailable(agent, ai_project_client)
       THEN req' = Update(r,
                [pc |-> "done",
                 response |-> <<JSONResponse(503,
                     FormatBingGroundingResponse(<<"Search service not available">>, <<>>))>>])
       ELSE req' = Update(r, [pc |-> "compose"])
    /\ UNCHANGED <<fn, ai_project_client, agent, environ, started, running, calls>>

\* what follows the return of get_grounded_information: search_endpoint
\* composes its prompt, execute_bing_search_function returns the dictionary
AfterGroundedInformation(kind, search, info) ==
    IF kind = "search"
    THEN [search_results |-> <<search>>, grounded_info |-> <<info>>,
          prompt |-> PromptFor(TRUE, info), pc |-> "submit"]
    ELSE [search_results |-> <<search>>, grounded_info |-> <<info>>,
          result |-> "grounded_info", pc |-> "done"]

\* get_grounded_information(query, context) called by slot r: on a disabled
\* tool it returns without waiting; on an enabled tool search_web_async sends
\* its GET and the handler is suspended until the answer
GetGroundedInformation(r, kind, message, query, context) ==
    IF ToolEnabled(environ.BING_SEARCH_API_KEY, environ.ENABLE_BING_SEARCH)
    THEN /\ req' = Update(r,
                [kind |-> kind, message |-> message, query |-> query, context |-> context,
                 enhanced_query |-> EnhancedQuery(query, context),
                 tool_enabled |-> TRUE, pc |-> "http"])
         /\ calls' = Count(r,
                [get_grounded_information |-> calls[r].get_grounded_information + 1,
                 http_get |-> calls[r].http_get + 1])
         /\ running' = 0
    ELSE /\ req' = Update(r,
                AfterGroundedInformation(kind,
                    SearchWebDisabled(EnhancedQuery(query, context)),
                    GroundedInfo(query, EnhancedQuery(query, context),
                                 SearchWebDisabled(EnhancedQuery(query, context)), FALSE))
                @@ [kind |-> kind, message |-> message, query |-> query, context |-> context,
                    enhanced_query |-> EnhancedQuery(query, context),
                    tool_enabled |-> FALSE])
         /\ calls' = Count(r,
                [get_grounded_information |-> calls[r].get_grounded_information + 1])
         /\ running' = r

\* search_endpoint, the compose step (search_execution span up to the prompt)
SearchCompose(r) ==
    /\ Holds(r)
    /\ req[r].pc = "compose"
    /\ IF environ.ENABLE_BING_SEARCH
       THEN GetGroundedInformation(r, "search", req[r].message, PyStr(req[r].message), <<>>)
       ELSE /\ req' = Update(r, [prompt |-> PromptFor(FALSE, <<>>), pc |-> "submit"])
            /\ UNCHANGED <<running, calls>>
    /\ UNCHANGED <<fn, ai_project_client, agent, environ, started>>

\* faulty variant: a GET that did not give a 200 answer is sent once more
\* before the fallback set is returned
HttpReturnRetried(r, outcome) ==
    /\ running = 0
    /\ req[r].pc = "http"
    /\ IF (outcome.kind = "exception" \/ outcome.status # 200) /\ calls[r].http_get < 2
       THEN /\ calls' = Count(r, [http_get |-> calls[r].http_get + 1])
            /\ UNCHANGED <<running, req>>
       ELSE /\ running' = r
            /\ req' = Update(r,
                    AfterGroundedInformation(req[r].kind,
                        SearchWebResponse(req[r].enhanced_query, outcome),
                        GroundedInfo(req[r].query, req[r].enhanced_query,
                                     SearchWebResponse(req[r].enhanced_query, outcome), TRUE))
                    @@ [http_response |-> outcome])
            /\ UNCHANGED calls
    /\ UNCHANGED <<fn, ai_project_client, agent, environ, started>>

\* the GET of search_web_async ends: the suspended handler is resumed with
\* the answer, search_web_async and get_grounded_information return
HttpReturn(r, outcome) ==
    /\ running = 0
    /\ req[r].pc = "http"
    /\ running' = r
    /\ req' = Update(r,
            AfterGroundedInformation(req[r].kind,
                SearchWebResponse(req[r].enhanced_query, outcome),
                GroundedInfo(req[r].query, req[r].enhanced_query,
                             SearchWebResponse(req[r].enhanced_query, outcome), TRUE))
            @@ [http_response |-> outcome])
    /\ UNCHANGED <<fn, ai_project_client, agent, environ, started, calls>>

\* arguments of a search_web function call: a JSON text that does not
\* parse, or an object with some 'query' and 'context'
FunctionQueries == {PyStr(<<>>), PyStr(<<"a">>), PyInt(<<"7">>), PyInt(<<"0">>)}
FunctionContexts == {<<>>, <<"a">>}
FunctionArguments == [json : BOOLEAN, query : FunctionQueries, context : FunctionContexts]

\* execute_bing_search_function
ExecuteBingSearchFunction(r, arguments) ==
    /\ running = 0
    /\ req[r].pc = "idle"
    /\ IF ~arguments.json
       THEN /\ req' = Update(r, [kind |-> "function", result |-> "failed_to_execute", pc |-> "done"])
            /\ running' = r
            /\ UNCHANGED calls
       ELSE IF ~Truthy(arguments.query)
            THEN /\ req' = Update(r,
                        [kind |-> "function", query |-> arguments.query,
                         context |-> arguments.context,
                         result |-> "query_required", pc |-> "done"])
                 /\ running' = r
                 /\ UNCHANGED calls
            ELSE GetGroundedInformation(r, "function", <<>>, arguments.query, arguments.context)
    /\ UNCHANGED <<fn, ai_project_client, agent, environ, started>>

\* the request and the locals of the compose step are not read again once
\* the prompt has been handed to create_thread_and_run: from there on the
\* state keeps the live locals only
ComposeLocalsDropped ==
    [message |-> IdleReq.message,
     query |-> IdleReq.query,
     context |-> IdleReq.context,
     enhanced_query |-> IdleReq.enhanced_query,
     tool_enabled |-> IdleReq.tool_enabled,
     http_response |-> IdleReq.http_response,
     search_results |-> IdleReq.search_results,
     grounded_info |-> IdleReq.grounded_info,
     prompt |-> IdleReq.prompt]

\* faulty variant: an error of the submit step logged and passed over, like
\* one of the poll loop
SubmitFailureSwallowed == [pc |-> "retrieve"]

\* faulty variant: no outer except block, the exception ends the handler
\* with no response of its own
SubmitFailureEscapes == [pc |-> "done"]

\* create_thread_and_run raised: the outer except block answers
SubmitFailed == [response |-> <<ProcessingError>>, pc |-> "done"]

\* faulty variant: an error of runs.get treated like one of the submit step
StatusErrorFatal == [response |-> <<ProcessingError>>, pc |-> "done"]

\* runs.get raised: the except block inside the loop logs and breaks
StatusError == [pc |-> "retrieve"]

\* search_endpoint, the submit step (agent_analysis span): the call gives a
\* run handle whose thread_id and id are read, or the call or the reads raise
\* into the outer except block
SearchSubmit(r, ok) ==
    /\ Holds(r)
    /\ req[r].pc = "submit"
    /\ calls' = Count(r, [create_thread_and_run |-> calls[r].create_thread_and_run + 1])
    /\ IF ok
       THEN req' = Update(r,
                [run_result |-> "run", elapsed_time |-> 0, pc |-> "poll"] @@ ComposeLocalsDropped)
       ELSE req' = Update(r, SubmitFailed @@ ComposeLocalsDropped)
    /\ UNCHANGED <<fn, ai_project_client, agent, environ, started, running>>

\* one pass of the poll loop: the loop test, runs.get, and then a break (a
\* terminal status, or an exception) or time.sleep and the increment.
\* time.sleep blocks: the handler keeps the event loop while it waits.
PollFetch(r, outcome) ==
    /\ Holds(r)
    /\ req[r].pc = "poll"
    /\ LoopCond(req[r].elapsed_time)
    /\ IF outcome = "raise"
       THEN /\ req' = Update(r, StatusError)
            /\ calls' = Count(r, [runs_get |-> calls[r].runs_get + 1, last_status |-> outcome])
       ELSE IF IsTerminal(outcome)
            THEN /\ req' = Update(r, [current_run |-> outcome, pc |-> "retrieve"])
                 /\ calls' = Count(r, [runs_get |-> calls[r].runs_get + 1, last_status |-> outcome])
            ELSE /\ req' = Update(r,
                        [current_run |-> outcome,
                         elapsed_time |-> NextElapsed(req[r].elapsed_time)])
                 /\ calls' = Count(r,
                        [runs_get |-> calls[r].runs_get + 1, last_status |-> outcome,
                         sleep |-> calls[r].sleep + 1])
    /\ UNCHANGED <<fn, ai_project_client, agent, environ, started, running>>

\* faulty variant: a used-up budget is answered as an error, with no
\* retrieval
PollBudgetAnswers(r) ==
    /\ Holds(r)
    /\ req[r].pc = "poll"
    /\ ~LoopCond(req[r].elapsed_time)
    /\ req' = Update(r, [response |-> <<ProcessingError>>, pc |-> "done"])
    /\ UNCHANGED <<fn, ai_project_client, agent, environ, started, running, calls>>

\* the loop test fails: the budget is used up
PollBudget(r) ==
    /\ Holds(r)
    /\ req[r].pc = "poll"
    /\ ~LoopCond(req[r].elapsed_time)
    /\ req' = Update(r, [pc |-> "retrieve"])
    /\ UNCHANGED <<fn, ai_project_client, agent, environ, started, running, calls>>

\* faulty variant of the retrieve step: a run that was seen failed is
\* answered as an error, whatever the messages are
SearchRetrieveChecksRun(r, listing) ==
    /\ Holds(r)
    /\ req[r].pc = "retrieve"
    /\ req' = Update(r,
            [response |-> <<IF req[r].current_run = "failed"
                            THEN ProcessingError
                            ELSE RetrieveResponse(listing)>>,
             pc |-> "done"])
    /\ calls' = Count(r, [messages_list |-> calls[r].messages_list + 1, last_list |-> listing])
    /\ UNCHANGED <<fn, ai_project_client, agent, environ, started, running>>

\* search_endpoint, the retrieve step (retrieve_response span and its except)
SearchRetrieve(r, listing) ==
    /\ Holds(r)
    /\ req[r].pc = "retrieve"
    /\ req' = Update(r, [response |-> <<RetrieveResponse(listing)>>, pc |-> "done"])
    /\ calls' = Count(r, [messages_list |-> calls[r].messages_list + 1, last_list |-> listing])
    /\ UNCHANGED <<fn, ai_project_client, agent, environ, started, running>>

\* the handler has returned: its response goes out, its frame is gone, and
\* the event loop is free
Deliver(r) ==
    /\ Holds(r)
    /\ req[r].pc = "done"
    /\ req' = [req EXCEPT ![r] = IdleReq]
    /\ calls' = [calls EXCEPT ![r] = NoCalls]
    /\ running' = 0
    /\ UNCHANGED <<fn, ai_project_client, agent, environ, started>>

Next ==
    \/ \E e, c, a \in BOOLEAN : Lifespan(e, c, a)
    \/ \E r \in Reqs, m \in Texts(MaxLen) : SearchValidate(r, m)
    \/ \E r \in Reqs : SearchAvailable(r)
    \/ \E r \in Reqs : SearchCompose(r)
    \/ \E r \in Reqs, o \in HttpOutcomes : HttpReturn(r, o)
    \/ \E r \in Reqs, a \in FunctionArguments : ExecuteBingSearchFunction(r, a)
    \/ \E r \in Reqs, ok \in BOOLEAN : SearchSubmit(r, ok)
    \/ \E r \in Reqs, o \in FetchOutcomes : PollFetch(r, o)
    \/ \E r \in Reqs : PollBudget(r)
    \/ \E r \in Reqs, l \in ListOutcomes : SearchRetrieve(r, l)
    \/ \E r \in Reqs : Deliver(r)

Spec == Init /\ [][Next]_vars

\* the steps of the handler in slot r, and the end of its GET
HandlerStep(r) ==
    \/ SearchAvailable(r)
    \/ SearchCompose(r)
    \/ \E ok \in BOOLEAN : SearchSubmit(r, ok)
    \/ \E o \in FetchOutcomes : PollFetch(r, o)
    \/ PollBudget(r)
    \/ \E l \in ListOutcomes : SearchRetrieve(r, l)
    \/ Deliver(r)

HttpEnds(r) == \E o \in HttpOutcomes : HttpReturn(r, o)

\* the event loop runs the handler that holds it; a GET ends (with an answer,
\* or with the exception of the client's timeout) and the event loop, which
\* serves its ready handlers in turn, resumes the handler that waited for it
FairSpec ==
    /\ Spec
    /\ \A r \in Reqs : WF_vars(HandlerStep(r)) /\ SF_vars(HttpEnds(r))

\* the caller of the /search request in slot r closes its connection.  No
\* step of search_endpoint reads the connection before the response is
\* returned, and the server does not cancel a handler whose caller has gone:
\* the step the handler was in is all that is recorded
Disconnect(r) ==
    /\ req[r].kind = "search"
    /\ req[r].disconnected = <<>>
    /\ req' = Update(r, [disconnected |-> <<req[r].pc>>])
    /\ UNCHANGED <<fn, ai_project_client, agent, environ, started, running, calls>>

\* /search with callers that may close their connections
CancelNext ==
    \/ Next
    \/ \E r \in Reqs : Disconnect(r)

CancelSpec == Init /\ [][CancelNext]_vars

\* ------------------------------------------------------- the /chat handler

\* session_state.get("thread_id"): no such key, or the value sent (the empty
\* string is a value that "if thread_id" takes for no thread id)
ThreadIdArguments == {<<>>, <<PyStr(<<>>)>>, <<PyStr(<<"t", "1">>)>>}

\* request.message of a chat request: any text, the empty one too (the chat
\* path does not validate it)
ChatMessages == {<<>>, <<"a">>}

\* if thread_id
ThreadIdGiven(thread_id) == thread_id # <<>> /\ Truthy(thread_id[1])

\* the id of the thread threads.create gives
NewThread == <<"t", "2">>

\* the chunk of an uninitialized backend, and the one of the except block
NotInitializedChunk == <<"Error: ", "Agent or AI Project client not initialized", "\n">>
ExceptionChunk == <<"Error: ", "str(e)", "\n">>

\* the four informational chunks, in their order
InfoChunks(user_message) ==
    << <<"Searching for information about: ">> \o user_message \o <<"\n\n">>,
       <<"I'm a network-secured AI research assistant powered by Azure AI Foundry with Bing grounding capabilities. ">>,
       <<"I can help you find current information, research topics, and answer questions using real-time web search. ">>,
       <<"However, the full streaming implementation is still being set up for the message: '">>
            \o user_message \o <<"'", "\n">> >>

\* messages.create(thread_id=thread.id, role="user", content=user_message)
UserMessage(thread, user_message) ==
    [thread_id |-> thread, role |-> "user", content |-> user_message]

\* faulty variant: after a failed lookup the handler gives up instead of
\* creating a thread
ThreadLookupFailedGivesUp(r) ==
    /\ req' = Update(r, [stream |-> <<ExceptionChunk>>, pc |-> "yielded"])
    /\ calls' = Count(r, [thread_resolved |-> <<FALSE>>])

\* the bare except of the thread lookup: threads.create() is awaited
ThreadLookupFailed(r) ==
    /\ req' = Update(r, [pc |-> "thread_create"])
    /\ calls' = Count(r,
            [threads_create |-> calls[r].threads_create + 1, thread_resolved |-> <<FALSE>>])

\* faulty variant: the first chunk is sent before the message is posted, so
\* that a failed post puts the error chunk behind it
PostFailedAfterChunk(r) ==
    /\ req' = Update(r, [stream |-> <<InfoChunks(req[r].message)[1], ExceptionChunk>>,
                         pc |-> "yielded"])
    /\ calls' = Count(r, [message_posted |-> <<FALSE>>])

\* messages.create raised: the outer except block yields the error chunk
PostFailed(r) ==
    /\ req' = Update(r, [stream |-> <<ExceptionChunk>>, pc |-> "yielded"])
    /\ calls' = Count(r, [message_posted |-> <<FALSE>>])

\* chat_stream and stream_agent_response up to its first suspension: the
\* chunk of an uninitialized backend, or the first remote call
ChatStream(r, user_message, thread_id) ==
    /\ started
    /\ running = 0
    /\ req[r].pc = "idle"
    /\ IF Unavailable(agent, ai_project_client)
       THEN /\ req' = Update(r,
                    [kind |-> "chat", message |-> user_message, thread_id |-> thread_id,
                     stream |-> <<NotInitializedChunk>>, pc |-> "yielded"])
            /\ UNCHANGED calls
       ELSE IF ThreadIdGiven(thread_id)
            THEN /\ req' = Update(r,
                        [kind |-> "chat", message |-> user_message, thread_id |-> thread_id,
                         pc |-> "thread_get"])
                 /\ calls' = Count(r, [threads_get |-> calls[r].threads_get + 1])
            ELSE /\ req' = Update(r,
                        [kind |-> "chat", message |-> user_message, thread_id |-> thread_id,
                         pc |-> "thread_create"])
                 /\ calls' = Count(r, [threads_create |-> calls[r].threads_create + 1])
    /\ UNCHANGED <<fn, ai_project_client, agent, environ, started, running>>

\* threads.get(thread_id) ends: the thread is used and the message is sent
\* to it, or the lookup raised and a thread is created
ThreadsGetReturn(r, ok) ==
    /\ running = 0
    /\ req[r].pc = "thread_get"
    /\ IF ok
       THEN /\ req' = Update(r,
                    [thread |-> <<req[r].thread_id[1].value>>,
                     posted |-> <<UserMessage(req[r].thread_id[1].value, req[r].message)>>,
                     pc |-> "message_create"])
            /\ calls' = Count(r,
                    [messages_create |-> calls[r].messages_create + 1,
                     thread_resolved |-> <<TRUE>>])
       ELSE ThreadLookupFailed(r)
    /\ UNCHANGED <<fn, ai_project_client, agent, environ, started, running>>

\* threads.create() ends: the message is sent to the new thread, or the
\* outer except block yields the error chunk
ThreadsCreateReturn(r, ok) ==
    /\ running = 0
    /\ req[r].pc = "thread_create"
    /\ IF ok
       THEN /\ req' = Update(r,
                    [thread |-> <<NewThread>>,
                     posted |-> <<UserMessage(NewThread, req[r].message)>>,
                     pc |-> "message_create"])
            /\ calls' = Count(r,
                    [messages_create |-> calls[r].messages_create + 1,
                     thread_created |-> <<TRUE>>])
       ELSE /\ req' = Update(r, [stream |-> <<ExceptionChunk>>, pc |-> "yielded"])
            /\ calls' = Count(r, [thread_created |-> <<FALSE>>])
    /\ UNCHANGED <<fn, ai_project_client, agent, environ, started, running>>

\* messages.create ends: the first informational chunk is yielded, or the
\* outer except block yields the error chunk
MessagesCreateReturn(r, ok) ==
    /\ running = 0
    /\ req[r].pc = "message_create"
    /\ IF ok
       THEN /\ req' = Update(r,
                    [stream |-> <<InfoChunks(req[r].message)[1]>>, pc |-> "yielded"])
            /\ calls' = Count(r, [message_posted |-> <<TRUE>>])
       ELSE PostFailed(r)
    /\ UNCHANGED <<fn, ai_project_client, agent, environ, started, running>>

\* the generator is resumed after a chunk went out: the next informational
\* chunk is yielded, or (after the fourth, and after an error chunk) the
\* generator ends
ChatResume(r) ==
    /\ running = 0
    /\ req[r].pc = "yielded"
    /\ IF Head(req[r].stream[1]) # "Error: " /\ Len(req[r].stream) < 4
       THEN /\ req' = Update(r,
                    [stream |-> Append(req[r].stream,
                                       InfoChunks(req[r].message)[Len(req[r].stream) + 1])])
            /\ UNCHANGED running
       ELSE /\ req' = Update(r, [pc |-> "done"])
            /\ running' = r
    /\ UNCHANGED <<fn, ai_project_client, agent, environ, started, calls>>

\* ------------------------------------------------------ the other handlers

\* faulty variant of GET /health: is_healthy looks at the client handle only
HealthClientOnly(r) ==
    /\ started
    /\ running = 0
    /\ req[r].pc = "idle"
    /\ running' = r
    /\ req' = Update(r,
            [kind |-> "health", pc |-> "done",
             response |-> <<JSONResponse(200,
                [status |-> IF ai_project_client # None
                            THEN "healthy" ELSE "degraded",
                 framework |-> "azure_ai_foundry_with_bing_grounding",
                 agent_id |-> IF agent # None THEN <<"agent.id">> ELSE <<>>,
                 ai_project_client_enabled |-> ai_project_client # None,
                 bing_grounding_enabled |-> agent # None,
                 network_security |-> "private_endpoints_enabled",
                 version |-> "1.0.0"])>>])
    /\ UNCHANGED <<fn, ai_project_client, agent, environ, started, calls>>

\* GET /health
Health(r) ==
    /\ started
    /\ running = 0
    /\ req[r].pc = "idle"
    /\ running' = r
    /\ req' = Update(r,
            [kind |-> "health", pc |-> "done",
             response |-> <<JSONResponse(200,
                [status |-> IF ai_project_client # None /\ agent # None
                            THEN "healthy" ELSE "degraded",
                 framework |-> "azure_ai_foundry_with_bing_grounding",
                 agent_id |-> IF agent # None THEN <<"agent.id">> ELSE <<>>,
                 ai_project_client_enabled |-> ai_project_client # None,
                 bing_grounding_enabled |-> agent # None,
                 network_security |-> "private_endpoints_enabled",
                 version |-> "1.0.0"])>>])
    /\ UNCHANGED <<fn, ai_project_client, agent, environ, started, calls>>

\* GET /agent
GetChatAgent(r) ==
    /\ started
    /\ running = 0
    /\ req[r].pc = "idle"
    /\ running' = r
    /\ req' = Update(r,
            [kind |-> "agent", pc |-> "done",
             response |-> <<IF agent # None
                            THEN JSONResponse(200, [id |-> <<"agent.id">>, status |-> "active"])
                            ELSE JSONResponse(404,
                                    [detail |-> "Agent not found or not initialized"])>>])
    /\ UNCHANGED <<fn, ai_project_client, agent, environ, started, calls>>

\* GET /chat/history
History(r) ==
    /\ started
    /\ running = 0
    /\ req[r].pc = "idle"
    /\ running' = r
    /\ req' = Update(r, [kind |-> "history", pc |-> "done", response |-> <<JSONResponse(200, <<>>)>>])
    /\ UNCHANGED <<fn, ai_project_client, agent, environ, started, calls>>

\* the steps of a chat stream
ChatSteps ==
    \/ \E r \in Reqs, m \in ChatMessages, t \in ThreadIdArguments : ChatStream(r, m, t)
    \/ \E r \in Reqs, ok \in BOOLEAN : ThreadsGetReturn(r, ok)
    \/ \E r \in Reqs, ok \in BOOLEAN : ThreadsCreateReturn(r, ok)
    \/ \E r \in Reqs, ok \in BOOLEAN : MessagesCreateReturn(r, ok)
    \/ \E r \in Reqs : ChatResume(r)

\* the chat surface alone
ChatNext ==
    \/ \E e, c, a \in BOOLEAN : Lifespan(e, c, a)
    \/ ChatSteps
    \/ \E r \in Reqs : Deliver(r)

\* the chat path reads neither of the two search settings: they stay unset
ChatInit ==
    /\ Init
    /\ environ = [ENABLE_BING_SEARCH |-> FALSE, BING_SEARCH_API_KEY |-> FALSE]

ChatSpec == ChatInit /\ [][ChatNext]_vars

\* the status endpoints, answered while chat streams are in flight
StatusNext ==
    \/ ChatNext
    \/ \E r \in Reqs : Health(r)
    \/ \E r \in Reqs : GetChatAgent(r)
    \/ \E r \in Reqs : History(r)

StatusSpec == ChatInit /\ [][StatusNext]_vars

\* the whole service: every handler, in any interleaving
ServiceNext ==
    \/ Next
    \/ ChatSteps
    \/ \E r \in Reqs : Health(r)
    \/ \E r \in Reqs : GetChatAgent(r)
    \/ \E r \in Reqs : History(r)

ServiceSpec == Init /\ [][ServiceNext]_vars

\* ------------------------------------- the formatting functions on their own

\* the texts a formatting function is called with: every text of brackets
\* and letters up to MaxText characters, and the documented examples
BracketChars == {"[", "]", "a"}
BracketTexts(n) == UNION {[1..k -> BracketChars] : k \in 0..n}

ExampleTexts ==
    {<<"[", "d", "o", "c", "1", "]">>,
     <<"no citation here">>,
     <<"[", "a", "]", "[", "b", "]">>,
     <<"[", "]">>}

FormatterTexts == BracketTexts(MaxText) \cup ExampleTexts

\* an annotation without a text attribute
NoTextAnnotation ==
    [has_text |-> FALSE, text |-> <<>>,
     has_indices |-> TRUE, start_index |-> 2, end_index |-> 5,
     has_file_citation |-> TRUE,
     has_file_id |-> TRUE, file_id |-> <<"file-2">>,
     has_quote |-> TRUE, quote |-> <<"q">>]

FormatterAnnotations == {FileAnnotation, BareFileAnnotation, UrlAnnotation, NoTextAnnotation}
FormatterAnnotationLists == UNION {[1..k -> FormatterAnnotations] : k \in 0..MaxAnns}

\* result lists: the first n pages of an answer, or the fallback set
Hits(n) == ParseSearchResults(DataPages(n))
FormatterResults ==
    {Hits(n) : n \in 0..MaxHits} \cup {CreateFallbackResults(PyStr(<<"a">>)).value}

\* the max_results argument: left out, or a count
default_max_results == 5
MaxResultsArguments == {<<>>} \cup {<<n>> : n \in 0..(MaxHits + 1)}
MaxResultsOf(argument) == IF argument = <<>> THEN default_max_results ELSE argument[1]

\* format_unicode_citations(text)
CallFormatUnicodeCitations ==
    /\ fn = NoFn
    /\ \E text \in FormatterTexts :
            fn' = [name |-> "format_unicode_citations",
                   text |-> text,
                   result |-> FormatUnicodeCitations(text)]
    /\ UNCHANGED <<ai_project_client, agent, environ, started, running, req, calls>>

\* format_bing_grounding_response(content, annotations)
CallFormatBingGroundingResponse ==
    /\ fn = NoFn
    /\ \E content \in FormatterTexts, annotations \in FormatterAnnotationLists :
            fn' = [name |-> "format_bing_grounding_response",
                   content |-> content,
                   annotations |-> annotations,
                   result |-> FormatBingGroundingResponse(content, annotations)]
    /\ UNCHANGED <<ai_project_client, agent, environ, started, running, req, calls>>

\* format_search_results(results) and format_search_results(results, max_results)
CallFormatSearchResults ==
    /\ fn = NoFn
    /\ \E results \in FormatterResults, argument \in MaxResultsArguments :
            fn' = [name |-> "format_search_results",
                   results |-> results,
                   max_results |-> argument,
                   result |-> FormatSearchResults(results, MaxResultsOf(argument))]
    /\ UNCHANGED <<ai_project_client, agent, environ, started, running, req, calls>>

\* the function has returned and its frame is gone
FormatterReturn ==
    /\ fn # NoFn
    /\ fn' = NoFn
    /\ UNCHANGED <<ai_project_client, agent, environ, started, running, req, calls>>

FormatterNext ==
    \/ CallFormatUnicodeCitations
    \/ CallFormatBingGroundingResponse
    \/ CallFormatSearchResults
    \/ FormatterReturn

FormatterSpec == Init /\ [][FormatterNext]_vars

\* ------------------------------------------------------------- properties

NonTerminalStatuses == RunStatuses \ TerminalStatuses

\* slot r runs search_endpoint and its poll loop has been left
LoopLeft(r) ==
    /\ req[r].kind = "search"
    /\ req[r].run_result # None
    /\ req[r].pc \in {"retrieve", "done"}

\* every runs.get of slot r so far returned a status that is not terminal
AllFetchesPending(r) ==
    /\ calls[r].runs_get > 0
    /\ calls[r].last_status \in NonTerminalStatuses

\* C1: the handler never waits past 30 units, elapsed_time grows by one unit
\* per wait, and when every status fetch succeeded with a status that is not
\* terminal the poll loop ends after exactly 30 fetches with elapsed_time = 30
\* and the handler goes on to retrieval (one messages.list call before it
\* answers)
C1_BudgetEndsPollAtThirty ==
    \A r \in Reqs :
        /\ req[r].elapsed_time <= 30
        /\ calls[r].sleep <= 30
        /\ req[r].elapsed_time = calls[r].sleep
        /\ (LoopLeft(r) /\ AllFetchesPending(r)) =>
                /\ calls[r].runs_get = 30
                /\ req[r].elapsed_time = 30
                /\ (req[r].pc = "done" => calls[r].messages_list = 1)

C1_Witness ==
    \E r \in Reqs :
        /\ LoopLeft(r)
        /\ AllFetchesPending(r)
        /\ calls[r].runs_get = 30
        /\ req[r].elapsed_time = 30
        /\ req[r].pc = "done"
        /\ calls[r].messages_list = 1

\* C2: when the k-th status fetch is the first to return a terminal status,
\* the loop is left right after it: k <= 30, k-1 waits were made and
\* elapsed_time = k-1, and no fetch follows (the handler is at retrieval or
\* has answered); for [queued, in_progress, completed] that is 2 <= 3 units
C2_TerminalStatusEndsPoll ==
    \A r \in Reqs :
        calls[r].last_status \in TerminalStatuses =>
            /\ LoopLeft(r)
            /\ calls[r].runs_get \in 1..30
            /\ calls[r].sleep = calls[r].runs_get - 1
            /\ req[r].elapsed_time = calls[r].runs_get - 1
            /\ req[r].current_run = calls[r].last_status

C2_Witness ==
    \E r \in Reqs :
        /\ calls[r].last_status = "completed"
        /\ calls[r].runs_get = 3
        /\ req[r].elapsed_time = 2
        /\ req[r].pc = "retrieve"

\* C3: a status fetch that raises ends the poll loop at once (no wait and no
\* fetch after it) and is not fatal: the handler goes to retrieval, and its
\* response is the one retrieval decides
C3_StatusErrorNotFatal ==
    \A r \in Reqs :
        calls[r].last_status = "raise" =>
            /\ LoopLeft(r)
            /\ calls[r].sleep = calls[r].runs_get - 1
            /\ req[r].elapsed_time = calls[r].sleep
            /\ (req[r].pc = "retrieve" => calls[r].messages_list = 0)
            /\ (req[r].pc = "done" =>
                    /\ calls[r].messages_list = 1
                    /\ req[r].response = <<RetrieveResponse(calls[r].last_list)>>)

C3_Witness ==
    \E r \in Reqs :
        /\ calls[r].last_status = "raise"
        /\ req[r].pc = "done"
        /\ calls[r].messages_list = 1
        /\ req[r].response[1].status_code = 200

\* slot r has called search_web_async and it has ended
Searched(r) == req[r].search_results # <<>>

\* the outcomes of the web-search call that are not a parsed 200 answer: the
\* tool is disabled, the GET raised, the status is not 200, or the body of
\* the 200 answer is no JSON
SearchDegraded(r) ==
    \/ ~req[r].tool_enabled
    \/ req[r].http_response.kind = "exception"
    \/ req[r].http_response.status # 200
    \/ ~req[r].http_response.json

\* C4: for every str query and every outcome of the web-search call,
\* search_web_async returns without raising; when the call is degraded (tool
\* disabled, 401, any other status that is not 200, transport exception) the
\* result is the two-entry fallback set; an empty result only comes from a
\* 200 answer that carries no web page
C4_SearchNeverRaisesNorEmptyOnFailure ==
    \A r \in Reqs :
        (Searched(r) /\ req[r].enhanced_query.type = "str") =>
            /\ ~req[r].search_results[1].raised
            /\ SearchDegraded(r) =>
                    /\ Len(req[r].search_results[1].value) = 2
                    /\ req[r].search_results[1].value[2].title = <<"Alternative Search Options">>
            /\ req[r].search_results[1].value = <<>> =>
                    /\ req[r].tool_enabled
                    /\ req[r].http_response.kind = "response"
                    /\ req[r].http_response.status = 200
                    /\ req[r].http_response.json
                    /\ \/ ~req[r].http_response.data.webPages
                       \/ ~req[r].http_response.data.value
                       \/ req[r].http_response.data.items = <<>>

C4_Witness ==
    \E r \in Reqs :
        /\ Searched(r)
        /\ req[r].enhanced_query.type = "str"
        /\ req[r].http_response.kind = "exception"
        /\ ~req[r].search_results[1].raised
        /\ Len(req[r].search_results[1].value) = 2

\* slot r runs search_endpoint and still holds the request (the prompt has
\* not been handed over)
HoldsRequest(r) ==
    /\ req[r].kind = "search"
    /\ calls[r].create_thread_and_run = 0

\* the text is empty or made of white space only
AllWhitespace(text) == \A i \in 1..Len(text) : text[i] \in Whitespace

\* no collaborator was called for slot r
NoCollaboratorCall(r) ==
    /\ calls[r].get_grounded_information = 0
    /\ calls[r].http_get = 0
    /\ calls[r].create_thread_and_run = 0
    /\ calls[r].runs_get = 0
    /\ calls[r].messages_list = 0

Envelope(text) ==
    [response |-> [type |-> "text", text |-> [value |-> text, annotations |-> <<>>]]]

\* C5: a /search request with an empty or whitespace-only message is answered
\* 400 with {"error": "Search query is required and cannot be empty"} and no
\* collaborator is called for it
C5_BlankQueryIs400 ==
    \A r \in Reqs :
        (HoldsRequest(r) /\ AllWhitespace(req[r].message)) =>
            /\ req[r].pc = "done"
            /\ req[r].response =
                <<[status_code |-> 400,
                   content |-> [error |-> <<"Search query is required and cannot be empty">>]]>>
            /\ NoCollaboratorCall(r)

C5_Witness ==
    \E r \in Reqs :
        /\ HoldsRequest(r)
        /\ req[r].message = <<" ">>
        /\ req[r].pc = "done"
        /\ req[r].response[1].status_code = 400

\* C6: with the client handle or the agent unset, a /search request with a
\* non-blank message is answered 503 with the envelope "Search service not
\* available" and no annotations, and no collaborator is called for it
C6_UnavailableIs503 ==
    \A r \in Reqs :
        (/\ HoldsRequest(r)
         /\ ~AllWhitespace(req[r].message)
         /\ req[r].pc # "available"
         /\ (ai_project_client = None \/ agent = None)) =>
            /\ req[r].pc = "done"
            /\ req[r].response =
                <<[status_code |-> 503,
                   content |-> Envelope(<<"Search service not available">>)]>>
            /\ NoCollaboratorCall(r)

C6_Witness ==
    \E r \in Reqs :
        /\ HoldsRequest(r)
        /\ ~AllWhitespace(req[r].message)
        /\ ai_project_client # None
        /\ agent = None
        /\ req[r].pc = "done"
        /\ req[r].response[1].status_code = 503

\* create_thread_and_run was called for slot r and gave no run handle
SubmitRaised(r) ==
    /\ req[r].kind = "search"
    /\ calls[r].create_thread_and_run = 1
    /\ req[r].run_result = None

\* C7: when create_thread_and_run fails the request ends with 500 and the
\* envelope "An error occurred while processing your search request.", and
\* neither runs.get nor messages.list is called for it
C7_SubmitFailureIs500 ==
    \A r \in Reqs :
        SubmitRaised(r) =>
            /\ req[r].pc = "done"
            /\ req[r].response =
                <<[status_code |-> 500,
                   content |->
                     Envelope(<<"An error occurred while processing your search request.">>)]>>
            /\ calls[r].runs_get = 0
            /\ calls[r].messages_list = 0

C7_Witness ==
    \E r \in Reqs :
        /\ SubmitRaised(r)
        /\ req[r].pc = "done"
        /\ req[r].response[1].status_code = 500
        /\ calls[r].http_get = 1

\* the latest message of the listing is an assistant message whose first
\* content item carries a text
LatestIsAssistantText(listing) ==
    /\ ~listing.raised
    /\ listing.value # <<>>
    /\ listing.value[1].role = "assistant"
    /\ listing.value[1].content # <<>>
    /\ listing.value[1].content[1].has_text
    /\ listing.value[1].content[1].text_set

\* listing the messages raised, or reading the text of the latest one did
ListingRaises(listing) ==
    \/ listing.raised
    \/ /\ listing.value # <<>>
       /\ listing.value[1].role = "assistant"
       /\ listing.value[1].content # <<>>
       /\ listing.value[1].content[1].has_text
       /\ ~listing.value[1].content[1].text_set

\* C8: the retrieve step has exactly three outcomes: 200 with the envelope of
\* the latest assistant text and its annotations; 200 with the envelope "No
\* search results available" when the list is empty, the latest message is
\* not the assistant's, or it has no text content; 500 with the envelope
\* "Error retrieving search results" when listing or reading raises
C8_RetrieveThreeOutcomes ==
    \A r \in Reqs :
        (req[r].pc = "done" /\ calls[r].messages_list = 1) =>
            /\ Len(req[r].response) = 1
            /\ IF ListingRaises(calls[r].last_list)
               THEN req[r].response[1] =
                        [status_code |-> 500,
                         content |-> Envelope(<<"Error retrieving search results">>)]
               ELSE IF LatestIsAssistantText(calls[r].last_list)
                    THEN req[r].response[1] =
                            [status_code |-> 200,
                             content |-> FormatBingGroundingResponse(
                                calls[r].last_list.value[1].content[1].value,
                                calls[r].last_list.value[1].content[1].annotations)]
                    ELSE req[r].response[1] =
                            [status_code |-> 200,
                             content |-> Envelope(<<"No search results available">>)]

C8_Witness ==
    \E r \in Reqs :
        /\ req[r].pc = "done"
        /\ calls[r].messages_list = 1
        /\ LatestIsAssistantText(calls[r].last_list)
        /\ Len(calls[r].last_list.value) = 2
        /\ req[r].response[1].status_code = 200
        /\ req[r].response[1].content.response.text.annotations # <<>>

\* C9: every /search request ends with exactly one JSON response, of status
\* 200, 400, 500 or 503, whatever the collaborators do: a handler that has
\* ended has answered once, one that has not ended has not answered
C9_ExactlyOneResponse ==
    \A r \in Reqs :
        req[r].kind = "search" =>
            /\ Len(req[r].response) <= 1
            /\ (req[r].pc = "done") <=> (Len(req[r].response) = 1)
            /\ req[r].pc = "done" =>
                    /\ req[r].response[1].status_code \in {200, 400, 500, 503}
                    /\ DOMAIN req[r].response[1].content \in {{"response"}, {"error"}}

\* ... and every request that has been received is answered
C9_EveryRequestAnswered ==
    \A r \in Reqs : (req[r].kind = "search") ~> (req[r].pc = "done")

C9_Witness ==
    \E r \in Reqs :
        /\ req[r].kind = "search"
        /\ req[r].pc = "done"
        /\ calls[r].last_status = "raise"
        /\ calls[r].last_list.raised
        /\ Len(req[r].response) = 1
        /\ req[r].response[1].status_code = 500

\* C10: every dictionary get_grounded_information returns has sources_count
\* equal to the length of its search_results
C10_SourcesCountIsLength ==
    \A r \in Reqs :
        req[r].grounded_info # <<>> =>
            req[r].grounded_info[1].sources_count = Len(req[r].grounded_info[1].search_results)

\* the except path: a query that is not a str, with no context
C10_Witness ==
    \E r \in Reqs :
        /\ req[r].grounded_info # <<>>
        /\ "error" \in DOMAIN req[r].grounded_info[1]
        /\ req[r].grounded_info[1].sources_count = 0
        /\ req[r].grounded_info[1].search_results = <<>>

\* the other cases of C10: the fallback set, results of the provider, and
\* a 200 answer without results
C10_FallbackReached ==
    \E r \in Reqs :
        /\ req[r].grounded_info # <<>>
        /\ SearchDegraded(r)
        /\ req[r].grounded_info[1].sources_count = 2
C10_RealReached ==
    \E r \in Reqs :
        /\ req[r].grounded_info # <<>>
        /\ ~SearchDegraded(r)
        /\ req[r].grounded_info[1].sources_count = MaxResults
C10_EmptyReached ==
    \E r \in Reqs :
        /\ req[r].grounded_info # <<>>
        /\ ~SearchDegraded(r)
        /\ "error" \notin DOMAIN req[r].grounded_info[1]
        /\ req[r].grounded_info[1].sources_count = 0

\* position i of the text is the "[" of an occurrence the scan replaces: a
\* "]" follows with at least one character in between, and i does not lie
\* inside an occurrence that starts further left
IsCitationStart(text, i) ==
    /\ text[i] = "["
    /\ \E j \in (i + 2)..Len(text) :
            text[j] = "]" /\ \A k \in (i + 1)..(j - 1) : text[k] # "]"
    /\ \A h \in 1..(i - 1) :
            text[h] = "[" => \E k \in (h + 1)..(i - 1) : text[k] = "]"

\* position j of the text is the "]" that ends such an occurrence
IsCitationEnd(text, j) ==
    /\ text[j] = "]"
    /\ \E i \in 1..(j - 2) :
            IsCitationStart(text, i) /\ \A k \in (i + 1)..(j - 1) : text[k] # "]"

\* the text holds a "[", then one or more characters other than "]", then "]"
HasBracketCitation(text) ==
    \E i, j \in 1..Len(text) :
        /\ j >= i + 2
        /\ text[i] = "["
        /\ text[j] = "]"
        /\ \A k \in (i + 1)..(j - 1) : text[k] # "]"

\* C11: format_unicode_citations puts U+3010 for the "[" and U+2020 "source"
\* U+3011 for the "]" of every occurrence of "[", one or more characters other
\* than "]", "]" found scanning from the left without overlap, and leaves
\* every other character as it is and where it is; "[doc1]" and "[a][b]" are
\* rewritten as documented and a text without an occurrence ("[]" too) is
\* returned unchanged
C11_CitationsRewritten ==
    fn.name = "format_unicode_citations" =>
        /\ Len(fn.result) = Len(fn.text)
        /\ \A i \in 1..Len(fn.text) :
                fn.result[i] =
                    IF IsCitationStart(fn.text, i) THEN OpenMark
                    ELSE IF IsCitationEnd(fn.text, i) THEN CloseMark
                    ELSE fn.text[i]
        /\ ~HasBracketCitation(fn.text) => fn.result = fn.text
        /\ fn.text = <<"[", "d", "o", "c", "1", "]">> =>
                fn.result = <<OpenMark, "d", "o", "c", "1", CloseMark>>
        /\ fn.text = <<"[", "a", "]", "[", "b", "]">> =>
                fn.result = <<OpenMark, "a", CloseMark, OpenMark, "b", CloseMark>>
        /\ fn.text = <<"[", "]">> => fn.result = <<"[", "]">>
        /\ fn.text = <<"no citation here">> => fn.result = <<"no citation here">>

C11_Witness ==
    /\ fn.name = "format_unicode_citations"
    /\ fn.text = <<"[", "a", "]", "[", "b", "]">>
    /\ fn.result = <<OpenMark, "a", CloseMark, OpenMark, "b", CloseMark>>

\* further cases of C11: "[]" in front of an occurrence, and a "[" inside one
C11_EmptyPairReached ==
    /\ fn.name = "format_unicode_citations"
    /\ fn.text = <<"[", "]", "[", "a", "]">>
    /\ fn.result = <<"[", "]", OpenMark, "a", CloseMark>>
C11_NestedReached ==
    /\ fn.name = "format_unicode_citations"
    /\ fn.text = <<"[", "[", "a", "]", "]">>
    /\ fn.result = <<OpenMark, "[", "a", CloseMark, "]">>

\* C12: the text value of every envelope format_bing_grounding_response
\* builds holds no bracket citation: no "[" followed by one or more characters
\* other than "]" followed by "]", so that rewriting it again changes nothing
C12_NoBracketCitationRemains ==
    fn.name = "format_bing_grounding_response" =>
        /\ ~HasBracketCitation(fn.result.response.text.value)
        /\ FormatUnicodeCitations(fn.result.response.text.value)
                = fn.result.response.text.value

\* C13: format_search_results returns the sentinel exactly when the result
\* list is empty; otherwise it renders min(len(results), max_results) blocks
\* (max_results is 5 when left out), one for each of the first results in
\* their order, numbered from 1
C13_SentinelOrNumberedBlocks ==
    fn.name = "format_search_results" =>
        /\ (fn.result.kind = "sentinel") <=> (fn.results = <<>>)
        /\ fn.results # <<>> =>
            /\ fn.result.kind = "blocks"
            /\ Len(fn.result.blocks) =
                    Min(Len(fn.results),
                        IF fn.max_results = <<>> THEN 5 ELSE fn.max_results[1])
            /\ \A i \in 1..Len(fn.result.blocks) :
                    /\ fn.result.blocks[i].n = i
                    /\ fn.result.blocks[i].title = fn.results[i].title
                    /\ fn.result.blocks[i].url = fn.results[i].url
                    /\ fn.result.blocks[i].summary = fn.results[i].snippet
                    /\ fn.result.blocks[i].display_url = fn.results[i].display_url

\* five results with max_results = 2 give two blocks
C13_Witness ==
    /\ fn.name = "format_search_results"
    /\ Len(fn.results) = 5
    /\ fn.max_results = <<2>>
    /\ Len(fn.result.blocks) = 2
    /\ fn.result.blocks[2].n = 2

\* further cases of C13: more results than the default of 5, and the sentinel
C13_DefaultReached ==
    /\ fn.name = "format_search_results"
    /\ Len(fn.results) = 6
    /\ fn.max_results = <<>>
    /\ Len(fn.result.blocks) = 5
C13_SentinelReached ==
    /\ fn.name = "format_search_results"
    /\ fn.results = <<>>
    /\ fn.max_results = <<2>>
    /\ fn.result.kind = "sentinel"

\* the output annotation of one remote annotation, missing fields filled
\* with the defaults
AnnotationWithDefaults(a) ==
    [type |-> "citation",
     text |-> a.text,
     start_index |-> IF a.has_indices THEN a.start_index ELSE 0,
     end_index |-> IF a.has_indices THEN a.end_index ELSE Len(a.text),
     citation |->
        [citation_id |-> IF a.has_file_citation /\ a.has_file_id THEN a.file_id ELSE <<"1:0">>,
         quote |-> IF a.has_file_citation /\ a.has_quote THEN a.quote ELSE <<>>,
         source_name |-> IF a.has_file_citation /\ a.has_file_id
                         THEN a.file_id ELSE <<"Web Search">>]]

\* C16: format_bing_grounding_response gives one output annotation for each
\* remote annotation, in the same order: the lists have the same length, and
\* an annotation with missing fields is filled with the defaults (empty
\* quote, "Web Search", "1:0"), it is not dropped
C16_OneAnnotationEach ==
    fn.name = "format_bing_grounding_response" =>
        /\ Len(fn.result.response.text.annotations) = Len(fn.annotations)
        /\ \A i \in 1..Len(fn.annotations) :
                fn.result.response.text.annotations[i] = AnnotationWithDefaults(fn.annotations[i])

\* slot r runs search_endpoint and has composed its prompt
Composed(r) == req[r].kind = "search" /\ req[r].pc = "submit"

\* C14: the compose step of /search sends a request to the search provider
\* only when ENABLE_BING_SEARCH is on and the API key is set; with the switch
\* on it builds the "analyze these results" prompt when sources_count > 0
\* and the "unable to find current web search results" prompt otherwise;
\* with the switch off it builds the plain "answer from knowledge" prompt
\* and calls neither the tool nor the provider
C14_ComposePrompt ==
    \A r \in Reqs :
        /\ (req[r].kind = "search" /\ calls[r].http_get > 0) =>
                environ.ENABLE_BING_SEARCH /\ environ.BING_SEARCH_API_KEY
        /\ Composed(r) =>
                IF environ.ENABLE_BING_SEARCH
                THEN /\ calls[r].get_grounded_information = 1
                     /\ calls[r].http_get = (IF environ.BING_SEARCH_API_KEY THEN 1 ELSE 0)
                     /\ req[r].grounded_info # <<>>
                     /\ req[r].prompt =
                            IF req[r].grounded_info[1].sources_count > 0
                            THEN "analyze_results"
                            ELSE "search_unavailable"
                ELSE /\ calls[r].get_grounded_information = 0
                     /\ calls[r].http_get = 0
                     /\ req[r].grounded_info = <<>>
                     /\ req[r].prompt = "answer_from_knowledge"

\* the provider was asked and gave pages: the "analyze" prompt
C14_Witness ==
    \E r \in Reqs :
        /\ Composed(r)
        /\ calls[r].http_get = 1
        /\ req[r].http_response.status = 200
        /\ req[r].grounded_info[1].sources_count = MaxResults
        /\ req[r].prompt = "analyze_results"

\* the other cases of C14: a 200 answer without pages, and the switch off
C14_UnavailableReached ==
    \E r \in Reqs :
        /\ Composed(r)
        /\ calls[r].http_get = 1
        /\ req[r].grounded_info[1].sources_count = 0
        /\ req[r].prompt = "search_unavailable"
C14_PlainReached ==
    \E r \in Reqs :
        /\ Composed(r)
        /\ ~environ.ENABLE_BING_SEARCH
        /\ environ.BING_SEARCH_API_KEY
        /\ calls[r].get_grounded_information = 0
        /\ req[r].prompt = "answer_from_knowledge"

\* what degraded the search of slot r
DegradedBy(r) ==
    IF ~req[r].tool_enabled
    THEN (IF ~environ.BING_SEARCH_API_KEY THEN "missing credential" ELSE "not enabled")
    ELSE IF req[r].http_response.kind = "exception" THEN "transport error"
    ELSE "status"

\* the search of slot r has ended, for a str query, and was degraded
DegradedSearch(r) ==
    /\ Searched(r)
    /\ req[r].enhanced_query.type = "str"
    /\ SearchDegraded(r)

\* C15: a degraded search gives exactly two entries; the first states the
\* query and the reason of the fallback, so that a missing credential, a
\* search that is not enabled and a transport error give different first
\* entries; the second is the "alternative search options" message
C15_FallbackStatesReason ==
    \A r \in Reqs :
        DegradedSearch(r) =>
            /\ Len(req[r].search_results[1].value) = 2
            /\ req[r].search_results[1].value[2].title = <<"Alternative Search Options">>
            /\ req[r].search_results[1].value[1].title =
                    <<"Search Configuration Notice: ", "\"">> \o req[r].enhanced_query.value \o <<"\"">>
            /\ DegradedBy(r) = "transport error" =>
                    req[r].search_results[1].value[1]
                        # SearchWebDisabled(req[r].enhanced_query).value[1]
            /\ \A q \in Reqs :
                    (/\ DegradedSearch(q)
                     /\ req[q].enhanced_query = req[r].enhanced_query
                     /\ DegradedBy(q) # DegradedBy(r)) =>
                        req[q].search_results[1].value[1] # req[r].search_results[1].value[1]

\* slot r runs a chat stream whose backend was initialized when it began
ChatInitialized(r) ==
    /\ req[r].kind = "chat"
    /\ req[r].stream # <<NotInitializedChunk>>

\* a thread has been chosen for the chat stream of slot r
ThreadChosen(r) == ChatInitialized(r) /\ req[r].thread # <<>>

\* C17: in a chat stream with an initialized backend, a thread id that is
\* given and resolved is the thread used, and no thread is created; a thread
\* id that is given and not resolved makes the handler create exactly one
\* thread, and no error is reported for the failed lookup; without a thread
\* id exactly one thread is created and none is looked up; the user message
\* is posted, once, to the thread so chosen
C17_ThreadReusedOrCreated ==
    \A r \in Reqs :
        ChatInitialized(r) =>
            /\ calls[r].threads_get = (IF ThreadIdGiven(req[r].thread_id) THEN 1 ELSE 0)
            /\ calls[r].thread_resolved = <<TRUE>> =>
                    /\ calls[r].threads_create = 0
                    /\ req[r].thread = <<req[r].thread_id[1].value>>
            /\ calls[r].thread_resolved = <<FALSE>> =>
                    /\ calls[r].threads_create = 1
                    /\ calls[r].thread_created = <<>> => req[r].stream = <<>>
                    /\ (calls[r].thread_created = <<TRUE>> /\ calls[r].message_posted # <<FALSE>>) =>
                            \A i \in 1..Len(req[r].stream) : Head(req[r].stream[i]) # "Error: "
            /\ ~ThreadIdGiven(req[r].thread_id) =>
                    /\ calls[r].threads_get = 0
                    /\ calls[r].threads_create = 1
            /\ calls[r].thread_created = <<TRUE>> => req[r].thread = <<NewThread>>
            /\ ThreadChosen(r) =>
                    /\ calls[r].messages_create = 1
                    /\ req[r].posted = <<[thread_id |-> req[r].thread[1],
                                          role |-> "user",
                                          content |-> req[r].message]>>
            /\ ~ThreadChosen(r) => (calls[r].messages_create = 0 /\ req[r].posted = <<>>)

\* the lookup failed, a thread was created, and the stream ended without error
C17_Witness ==
    \E r \in Reqs :
        /\ ChatInitialized(r)
        /\ req[r].pc = "done"
        /\ calls[r].thread_resolved = <<FALSE>>
        /\ calls[r].threads_create = 1
        /\ req[r].thread = <<NewThread>>
        /\ req[r].posted # <<>>
        /\ req[r].posted[1].thread_id = NewThread
        /\ Len(req[r].stream) = 4

\* the other cases of C17: the thread given is used, and no thread id given
C17_ResolvedReached ==
    \E r \in Reqs :
        /\ req[r].pc = "done"
        /\ calls[r].thread_resolved = <<TRUE>>
        /\ calls[r].threads_create = 0
        /\ req[r].posted # <<>>
        /\ req[r].posted[1].thread_id = <<"t", "1">>
        /\ req[r].posted[1].content = <<"a">>
C17_NoThreadIdReached ==
    \E r \in Reqs :
        /\ req[r].kind = "chat"
        /\ req[r].pc = "done"
        /\ req[r].thread_id = <<PyStr(<<>>)>>
        /\ calls[r].threads_get = 0
        /\ calls[r].threads_create = 1
        /\ req[r].posted # <<>>
        /\ req[r].posted[1].thread_id = NewThread

\* the text begins with "Error:"
IsErrorChunk(chunk) == Head(chunk) = "Error: "

\* no remote call was made for the chat stream of slot r
NoChatCall(r) ==
    /\ calls[r].threads_get = 0
    /\ calls[r].threads_create = 0
    /\ calls[r].messages_create = 0

\* C18: a chat stream is the four informational chunks in their order, the
\* first of them sent only after the thread was obtained and the user
\* message posted; or it is one chunk that begins with "Error:" (the backend
\* is not initialized, and then no remote call is made, or a remote call
\* failed) with no informational chunk before or after it
C18_StreamShape ==
    \A r \in Reqs :
        req[r].kind = "chat" =>
            /\ \/ /\ Len(req[r].stream) <= 4
                  /\ req[r].stream = SubSeq(InfoChunks(req[r].message), 1, Len(req[r].stream))
                  /\ req[r].stream # <<>> =>
                        /\ req[r].thread # <<>>
                        /\ calls[r].message_posted = <<TRUE>>
               \/ /\ Len(req[r].stream) = 1
                  /\ IsErrorChunk(req[r].stream[1])
                  /\ \/ Unavailable(agent, ai_project_client) /\ NoChatCall(r)
                     \/ calls[r].thread_created = <<FALSE>>
                     \/ calls[r].message_posted = <<FALSE>>
            /\ req[r].pc = "done" =>
                    \/ req[r].stream = InfoChunks(req[r].message)
                    \/ Len(req[r].stream) = 1 /\ IsErrorChunk(req[r].stream[1])

C18_Witness ==
    \E r \in Reqs :
        /\ req[r].kind = "chat"
        /\ req[r].pc = "done"
        /\ req[r].message = <<"a">>
        /\ req[r].stream = InfoChunks(<<"a">>)
        /\ calls[r].message_posted = <<TRUE>>

\* the other shape of C18: the post failed, or the backend is not initialized
C18_PostFailedReached ==
    \E r \in Reqs :
        /\ req[r].kind = "chat"
        /\ req[r].pc = "done"
        /\ calls[r].message_posted = <<FALSE>>
        /\ req[r].stream = <<ExceptionChunk>>
C18_NotInitializedReached ==
    \E r \in Reqs :
        /\ req[r].kind = "chat"
        /\ req[r].pc = "done"
        /\ agent = None
        /\ NoChatCall(r)
        /\ req[r].stream = <<NotInitializedChunk>>

\* C19: the client handle and the agent are written during startup only: no
\* step of a request handler (/search, /chat, /health, /agent,
\* /chat/history) changes either, so both are the same at the end of a
\* request as at its start whatever the interleaving; and nothing else is
\* shared: a step changes the locals of one request only, and the settings
\* read from the environment never change
C19_HandlesWrittenAtStartupOnly ==
    [][/\ started => (ai_project_client' = ai_project_client /\ agent' = agent)
       /\ environ' = environ
       /\ \A p, q \in Reqs :
            (p # q /\ (req'[p] # req[p] \/ calls'[p] # calls[p])) =>
                (req'[q] = req[q] /\ calls'[q] = calls[q])]_vars

\* a /search request and a chat stream are in flight together, with both
\* handles set, while a third handler has answered
C19_Witness ==
    \E p, q \in Reqs :
        /\ ai_project_client # None
        /\ agent # None
        /\ req[p].kind = "search"
        /\ req[p].pc = "http"
        /\ req[q].kind = "chat"
        /\ req[q].pc = "yielded"
        /\ Len(req[q].stream) = 2

\* the other handlers of C19 have run with the handles set
C19_HealthReached ==
    \E p, q \in Reqs :
        /\ req[p].kind = "health"
        /\ req[p].pc = "done"
        /\ req[p].response[1].content.status = "healthy"
        /\ req[q].kind = "chat"
        /\ req[q].pc = "message_create"
C19_AgentReached ==
    \E p, q \in Reqs :
        /\ req[p].kind = "agent"
        /\ req[p].pc = "done"
        /\ req[p].response[1].status_code = 200
        /\ req[q].kind = "search"
        /\ req[q].pc = "http"
C19_HistoryReached ==
    \E p, q \in Reqs :
        /\ req[p].kind = "history"
        /\ req[p].pc = "done"
        /\ agent # None
        /\ req[q].kind = "search"
        /\ req[q].pc = "http"

\* C20: a /search request that waits a poll interval yields control: the
\* step in which it waits leaves the event loop to the other requests, which
\* can take steps before its poll loop has ended
C20_PollWaitYieldsControl ==
    [][\A r \in Reqs : calls'[r].sleep > calls[r].sleep => running' # r]_vars

\* what the code does instead: from the first status fetch to the end of the
\* poll loop the handler keeps the event loop, and no other request takes a
\* step
C20_PollLoopIsAtomic ==
    [][\A r, q \in Reqs :
            (q # r /\ req[r].pc = "poll") =>
                (running = r /\ req'[q] = req[q] /\ calls'[q] = calls[q])]_vars

\* a second request waits for the answer of its GET while the first is in
\* its poll loop, after ten waits
C20_BlockedReached ==
    \E r, q \in Reqs :
        /\ req[r].pc = "poll"
        /\ calls[r].sleep = 10
        /\ running = r
        /\ req[q].kind = "search"
        /\ req[q].pc = "http"

\* C21: when the caller of a /search request disconnects while the request
\* is in the poll loop, polling ceases: from then on no status fetch and no
\* message retrieval is made for that request
C21_PollingCeasesOnDisconnect ==
    [][\A r \in Reqs :
            req[r].disconnected = <<"poll">> =>
                /\ calls'[r].runs_get <= calls[r].runs_get
                /\ calls'[r].messages_list <= calls[r].messages_list]_vars

\* what the code does instead: a request whose caller left during the poll
\* loop has fetched the status again and has retrieved the messages
C21_PolledAfterDisconnect ==
    \E r \in Reqs :
        /\ req[r].disconnected = <<"poll">>
        /\ req[r].pc = "done"
        /\ calls[r].runs_get = 30
        /\ calls[r].messages_list = 1

\* the handler takes the same steps whether or not its caller is there: the
\* flag is written by the caller's step only and no handler step reads it
C21_DisconnectIgnored ==
    [][\A r \in Reqs :
            (req'[r].disconnected # req[r].disconnected /\ req'[r].pc # "idle") =>
                /\ req'[r] = [req[r] EXCEPT !.disconnected = <<req[r].pc>>]
                /\ calls' = calls
                /\ running' = running]_vars

\* the GET of slot r was answered with anything but a 200 status, or raised
AttemptFailed(r) ==
    /\ req[r].http_response.kind # "none"
    /\ req[r].http_response.kind = "exception" \/ req[r].http_response.status # 200

\* C22: one call of search_web_async makes at most one HTTP request: one
\* when the tool is enabled, sent when the call begins, and none when it is
\* disabled; after a failed or non-200 attempt the fallback set is returned
\* with that one request made, never a second one
C22_AtMostOneRequest ==
    \A r \in Reqs :
        /\ calls[r].get_grounded_information <= 1
        /\ calls[r].http_get <= calls[r].get_grounded_information
        /\ req[r].pc = "http" => calls[r].http_get = 1
        /\ Searched(r) =>
                /\ req[r].tool_enabled =
                        ToolEnabled(environ.BING_SEARCH_API_KEY, environ.ENABLE_BING_SEARCH)
                /\ calls[r].http_get = (IF req[r].tool_enabled THEN 1 ELSE 0)
                /\ ~req[r].tool_enabled => req[r].http_response = NoHttp
                /\ AttemptFailed(r) =>
                        /\ calls[r].http_get = 1
                        /\ req[r].search_results[1] = CreateFallbackResults(req[r].enhanced_query)

\* a 500 answer: the fallback set after one request
C22_Witness ==
    \E r \in Reqs :
        /\ Searched(r)
        /\ req[r].tool_enabled
        /\ req[r].http_response = HttpStatus(500)
        /\ calls[r].http_get = 1
        /\ Len(req[r].search_results[1].value) = 2

\* the other cases of C22: a disabled tool, a GET that raised, and a 200
\* answer
C22_DisabledReached ==
    \E r \in Reqs :
        /\ Searched(r)
        /\ ~req[r].tool_enabled
        /\ calls[r].get_grounded_information = 1
        /\ calls[r].http_get = 0
C22_ExceptionReached ==
    \E r \in Reqs :
        /\ Searched(r)
        /\ req[r].http_response = HttpException
        /\ calls[r].http_get = 1
C22_OkReached ==
    \E r \in Reqs :
        /\ Searched(r)
        /\ req[r].http_response.status = 200
        /\ req[r].http_response.json
        /\ calls[r].http_get = 1

\* slot r holds the answer of a GET /health request
HealthAnswered(r) == req[r].kind = "health" /\ req[r].pc = "done"

C23_HealthyReached ==
    \E r \in Reqs :
        /\ HealthAnswered(r)
        /\ agent = "agent"
        /\ req[r].response[1].content.status = "healthy"
        /\ req[r].response[1].content.agent_id = <<"agent.id">>
C23_NoHandleReached ==
    \E r \in Reqs :
        /\ HealthAnswered(r)
        /\ ai_project_client = None
        /\ req[r].response[1].content.status = "degraded"
        /\ ~req[r].response[1].content.ai_project_client_enabled

\* the poll loop of slot r has ended: a terminal status was seen, a status
\* fetch raised, or the budget is used up
PollEnded(r) ==
    \/ calls[r].last_status \in TerminalStatuses
    \/ calls[r].last_status = "raise"
    \/ ~LoopCond(req[r].elapsed_time)

\* where the collaborator calls of a /search request stand in any state
CallsInOrder(r) ==
    /\ calls[r].get_grounded_information <= 1
    /\ calls[r].create_thread_and_run <= 1
    /\ calls[r].messages_list <= 1
    /\ calls[r].create_thread_and_run = 1 => ~Unavailable(agent, ai_project_client)
    /\ (calls[r].runs_get > 0 \/ calls[r].messages_list > 0) =>
            (calls[r].create_thread_and_run = 1 /\ req[r].run_result # None)
    /\ req[r].pc = "poll" => calls[r].messages_list = 0
    /\ calls[r].messages_list = 1 => (req[r].pc = "done" /\ PollEnded(r))
    /\ (req[r].pc = "done" /\ req[r].run_result # None) => calls[r].messages_list = 1

\* the step in which a collaborator of a /search request is called
CallsStepInOrder(r) ==
    /\ calls'[r].get_grounded_information > calls[r].get_grounded_information =>
            /\ calls[r].create_thread_and_run = 0
            /\ calls[r].runs_get = 0
            /\ calls[r].messages_list = 0
    /\ calls'[r].create_thread_and_run > calls[r].create_thread_and_run =>
            /\ req[r].pc = "submit"
            /\ ~IsBlank(req[r].message)
            /\ ~Unavailable(agent, ai_project_client)
            /\ req[r].prompt # None
            /\ calls[r].create_thread_and_run = 0
            /\ calls[r].runs_get = 0
            /\ calls[r].messages_list = 0
    /\ calls'[r].runs_get > calls[r].runs_get =>
            /\ req[r].pc = "poll"
            /\ req[r].run_result # None
            /\ calls[r].create_thread_and_run = 1
            /\ calls[r].messages_list = 0
    /\ calls'[r].messages_list > calls[r].messages_list =>
            /\ req[r].pc = "retrieve"
            /\ req[r].run_result # None
            /\ PollEnded(r)
            /\ calls[r].messages_list = 0
            /\ calls'[r].runs_get = calls[r].runs_get

\* C24: the collaborator calls of a /search request come in the order
\* compose (the optional search), submit, poll, retrieve: create_thread_and_run
\* is called at most once, after validation and the availability check
\* passed and after the search, if any; no status is fetched before the
\* submit step succeeded; the messages are listed at most once, after the
\* poll loop has ended; and a request whose submit step succeeded lists them
\* exactly once before it answers, however the poll loop ended
C24_CallOrder ==
    /\ [](\A r \in Reqs : req[r].kind = "search" => CallsInOrder(r))
    /\ [][\A r \in Reqs : req[r].kind = "search" => CallsStepInOrder(r)]_vars

\* a request that searched, submitted, used up the budget and retrieved
C24_Witness ==
    \E r \in Reqs :
        /\ req[r].kind = "search"
        /\ req[r].pc = "done"
        /\ calls[r].get_grounded_information = 1
        /\ calls[r].create_thread_and_run = 1
        /\ calls[r].runs_get = 30
        /\ calls[r].last_status \in NonTerminalStatuses
        /\ calls[r].messages_list = 1

\* the other ways the poll loop ends, each followed by one retrieval
C24_RaisedReached ==
    \E r \in Reqs :
        /\ req[r].kind = "search"
        /\ req[r].pc = "done"
        /\ calls[r].last_status = "raise"
        /\ calls[r].runs_get = 1
        /\ calls[r].messages_list = 1
C24_TerminalReached ==
    \E r \in Reqs :
        /\ req[r].kind = "search"
        /\ req[r].pc = "done"
        /\ calls[r].last_status = "failed"
        /\ calls[r].messages_list = 1

\* ... and the retrieve step is taken: a request whose submit step succeeded
\* comes to list the messages
C24_RetrieveFollowsSubmit ==
    \A r \in Reqs :
        (req[r].kind = "search" /\ req[r].run_result # None) ~> (calls[r].messages_list = 1)

\* slot r holds the answer of a /search request that ended before its submit
\* step
AnsweredEarly(r) == HoldsRequest(r) /\ req[r].pc = "done"

\* C25: in /search the validation comes before the availability check: a
\* request with an empty or whitespace-only message is answered 400 also
\* when the client handle or the agent is unset, it never comes to the
\* availability check, and the 503 "Search service not available" answer is
\* given to non-blank messages only
C25_ValidationFirst ==
    \A r \in Reqs :
        /\ (AnsweredEarly(r) /\ AllWhitespace(req[r].message)
                /\ (ai_project_client = None \/ agent = None)) =>
                req[r].response[1].status_code = 400
        /\ (req[r].kind = "search" /\ req[r].pc = "available") =>
                ~AllWhitespace(req[r].message)
        /\ (AnsweredEarly(r) /\ req[r].response[1].status_code = 503) =>
                /\ ~AllWhitespace(req[r].message)
                /\ (ai_project_client = None \/ agent = None)
                /\ req[r].response[1].content = Envelope(<<"Search service not available">>)

\* a blank message with the agent unset: 400
C25_Witness ==
    \E r \in Reqs :
        /\ AnsweredEarly(r)
        /\ req[r].message = <<" ">>
        /\ ai_project_client # None
        /\ agent = None
        /\ req[r].response[1].status_code = 400

\* the other cases of C25: an empty message with no handle set, and the 503
\* of a non-blank message
C25_EmptyReached ==
    \E r \in Reqs :
        /\ AnsweredEarly(r)
        /\ req[r].message = <<>>
        /\ ai_project_client = None
        /\ req[r].response[1].status_code = 400
C25_UnavailableReached ==
    \E r \in Reqs :
        /\ AnsweredEarly(r)
        /\ req[r].message = <<"a">>
        /\ agent = None
        /\ req[r].response[1].status_code = 503

\* what a listing tells about the latest message: the listing raised, or it
\* is cut down to its first message
LatestOnly(listing) ==
    IF listing.raised
    THEN listing
    ELSE Return(SubSeq(listing.value, 1, Min(1, Len(listing.value))))

\* the submit step of slot r succeeded
Submitted(r) == req[r].kind = "search" /\ req[r].run_result # None

\* slot r holds the answer of a request that retrieved the assistant's plain
\* reply, after a poll loop that ended with last_status
AnsweredPlainAfter(r, last_status) ==
    /\ Submitted(r)
    /\ req[r].pc = "done"
    /\ calls[r].last_status = last_status
    /\ calls[r].last_list = Return(<<ThreadMessage("assistant", <<TextItem(PlainReply, <<>>)>>)>>)
    /\ req[r].response = <<JSONResponse(200, Envelope(PlainReply))>>

\* C26: after a successful submit step the response of /search (status code
\* and envelope) is decided by the retrieval alone: nothing is answered
\* while the request polls, and the response is the one that belongs to the
\* latest message retrieved (or to the failure of the retrieval), the same
\* for every way the poll loop can end: a run seen completed, failed,
\* expired or cancelled, the budget used up, a status fetch that raised
C26_ResponseFromRetrievalOnly ==
    \A r \in Reqs :
        Submitted(r) =>
            /\ req[r].pc \in {"poll", "retrieve"} => req[r].response = <<>>
            /\ req[r].pc = "done" =>
                    /\ calls[r].messages_list = 1
                    /\ req[r].response = <<RetrieveResponse(LatestOnly(calls[r].last_list))>>

\* a run that was seen failed is answered 200 with the assistant's reply
C26_Witness == \E r \in Reqs : AnsweredPlainAfter(r, "failed")

\* the same latest message and the same response after every other end of
\* the poll loop
C26_CompletedReached == \E r \in Reqs : AnsweredPlainAfter(r, "completed")
C26_ExpiredReached == \E r \in Reqs : AnsweredPlainAfter(r, "expired")
C26_CancelledReached == \E r \in Reqs : AnsweredPlainAfter(r, "cancelled")
C26_RaisedReached == \E r \in Reqs : AnsweredPlainAfter(r, "raise")
C26_BudgetReached ==
    \E r \in Reqs : AnsweredPlainAfter(r, "queued") /\ calls[r].runs_get = 30

\* slot r runs search_endpoint with the switch on and has composed its prompt
ComposedWithSearch(r) == Composed(r) /\ environ.ENABLE_BING_SEARCH

\* C27: with ENABLE_BING_SEARCH on, a degraded search (no API key, a status
\* that is not 200, a transport error) gives the two-entry fallback set with
\* sources_count = 2, and the handler composes the "analyze these results"
\* prompt over the formatted fallback notices; the "unable to find current
\* web search results" prompt is composed only with sources_count = 0: the
\* provider answered 200 without results, or get_grounded_information
\* itself failed
C27_FallbackIsAnalyzed ==
    \A r \in Reqs :
        ComposedWithSearch(r) =>
            /\ SearchDegraded(r) =>
                    /\ req[r].search_results[1] = CreateFallbackResults(req[r].enhanced_query)
                    /\ Len(req[r].grounded_info[1].search_results) = 2
                    /\ req[r].grounded_info[1].sources_count = 2
                    /\ req[r].grounded_info[1].formatted_results =
                            FormatSearchResults(
                                CreateFallbackResults(req[r].enhanced_query).value, 5)
                    /\ req[r].grounded_info[1].formatted_results.kind = "blocks"
                    /\ req[r].prompt = "analyze_results"
            /\ req[r].prompt = "search_unavailable" =>
                    /\ req[r].grounded_info[1].sources_count = 0
                    /\ \/ "error" \in DOMAIN req[r].grounded_info[1]
                       \/ /\ ~SearchDegraded(r)
                          /\ req[r].http_response.status = 200
                          /\ req[r].search_results[1] = Return(<<>>)

\* the API key is missing: the fallback set is analyzed
C27_Witness ==
    \E r \in Reqs :
        /\ ComposedWithSearch(r)
        /\ ~environ.BING_SEARCH_API_KEY
        /\ calls[r].http_get = 0
        /\ req[r].grounded_info[1].sources_count = 2
        /\ req[r].prompt = "analyze_results"

\* the other cases of C27: a status that is not 200, a transport error, and
\* a 200 answer without results
C27_StatusReached ==
    \E r \in Reqs :
        /\ ComposedWithSearch(r)
        /\ req[r].http_response = HttpStatus(401)
        /\ req[r].grounded_info[1].sources_count = 2
        /\ req[r].prompt = "analyze_results"
C27_TransportReached ==
    \E r \in Reqs :
        /\ ComposedWithSearch(r)
        /\ req[r].http_response = HttpException
        /\ req[r].grounded_info[1].sources_count = 2
        /\ req[r].prompt = "analyze_results"
C27_NoResultsReached ==
    \E r \in Reqs :
        /\ ComposedWithSearch(r)
        /\ ~SearchDegraded(r)
        /\ req[r].grounded_info[1].sources_count = 0
        /\ req[r].prompt = "search_unavailable"

====
